---- MODULE Spec2Model ----
(***************************************************************************)
(* Model of packages/valory/skills/price_estimation_abci/helpers/          *)
(* gnosis_safe.py: get_deploy_safe_tx (the deployment planner) and         *)
(* _build_tx_deploy_proxy_contract_with_nonce (the proxy transaction       *)
(* builder).                                                               *)
(*                                                                         *)
(* A run is one call of either function.  Every chain query the code       *)
(* issues is one step: it is appended to `log`, and it either answers from *)
(* the chain state or raises, in which case the exception propagates and   *)
(* the call ends without a return value.                                   *)
(*                                                                         *)
(* An Optional[int] is a sequence: <<>> is None and <<v>> is the value v.  *)
(***************************************************************************)
EXTENDS Integers, Sequences, FiniteSets, TLC

\* ------------------------------------------------------------------ bounds
MaxOwners == 2
MaxThreshold == 2
MaxSalt == 1
MaxTxCount == 1
MaxGas == 1

\* --------------------------------------------------------------- constants
SAFE_CONTRACT == "0xd9Db270c1B5E3Bd161E8c8503c55cEABeE709552"
DEFAULT_CALLBACK_HANDLER == "0xf48f2B2d2a534e402487b3ee7C18c33Aec0Fe5e4"
PROXY_FACTORY_CONTRACT == "0xa6B71E26C5e0845f74c812102Ca7114b6a896AB2"
NULL_ADDRESS == "0x0000000000000000000000000000000000000000"
GasMargin == 50000

None == <<>>
Some(v) == <<v>>

\* ------------------------------------------------------------ input domains
OwnerAddresses == {"0xA", "0xB"}
\* the same account written in lower case and in its checksummed form
Senders == {"0xsender", "0xSeNdEr"}
OwnerLists == UNION {[1..n -> OwnerAddresses] : n \in 0..MaxOwners}
Thresholds == -1..MaxThreshold
Salts == 0..MaxSalt
GasValues == 0..MaxGas
TxCounts == 0..MaxTxCount
\* a balance in wei: the code tells zero from non-zero only
Balances == {0, 1}
\* a gas price override, when one is supplied
GasPrices == {1}
Opt(S) == {None} \cup {Some(v) : v \in S}

VARIABLES
    chain,             \* state of the node behind EthereumClient(node_url)
    auto,              \* state of the node behind the module-level web3.auto w3
    pc,                \* position of the running call
    entry,             \* which function the caller invoked
    req,               \* arguments of get_deploy_safe_tx
    salt,              \* get_deploy_safe_tx's local salt_nonce after line 74
    account_balance,   \* Optional: get_deploy_safe_tx's local account_balance
    bargs,             \* Optional: arguments of the builder, once entered
    contract_address,  \* Optional: the builder's local contract_address
    tx_parameters,     \* Optional: the builder's local tx_parameters
    tx,                \* Optional: the builder's local tx
    log,               \* chain queries issued by the running call, in order
    outcome,           \* "none", "ok", or the error the call raised
    result,            \* Optional: the (tx, contract_address) pair returned
    last               \* Optional: what the previous call with the same inputs returned

vars == <<chain, auto, pc, entry, req, salt, account_balance, bargs,
          contract_address, tx_parameters, tx, log, outcome, result, last>>


\* ------------------------------------------------------------ pure helpers

\* checksum_address(sender): the EIP-55 form of an address; the checksummed
\* form is a fixed point.
checksum_address(a) == IF a = "0xsender" THEN "0xSeNdEr" ELSE a

\* the bug of testing the salt for truth ("if salt_nonce"): a supplied 0 is taken
\* for no salt
ChooseSaltNonceIfTruthy(salt_nonce, drawn) ==
    IF salt_nonce # None /\ salt_nonce[1] # 0 THEN salt_nonce[1] ELSE drawn

\* line 74: salt_nonce if salt_nonce is not None else _get_nonce()
ChooseSaltNonce(salt_nonce, drawn) ==
    IF salt_nonce # None THEN salt_nonce[1] ELSE drawn

\* line 81: len(owners) < threshold
ThresholdTooBig(owners, threshold) == Len(owners) < threshold

\* the bug of testing the balance for being negative only
NoFundsIfNegative(balance) == balance < 0

\* line 91: not account_balance
NoFunds(balance) == balance = 0

\* the bug of testing the answer for None ("getCode(...) is None"): the node
\* answers empty bytes, never None
NoCodeIfNoAnswer(code) == FALSE

\* lines 102-104: not getCode(address); getCode returns the (possibly empty) bytes
NoCode(code) == Len(code) = 0

\* the bug of querying code presence before the balance
CodeQueryFirst == "getCode_safe"

\* line 90: the first chain query of get_deploy_safe_tx
FirstQuery == "get_balance"

\* lines 112-127: the call data of Safe.setup(owners, threshold, to, data,
\* fallback_handler, payment_token, payment, payment_receiver); ABI encoding is
\* injective, so the payload is modelled as the record of what it encodes.
SetupData(owners, threshold) ==
    [fn |-> "setup", owners |-> owners, threshold |-> threshold,
     to |-> NULL_ADDRESS, data |-> <<>>,
     fallback_handler |-> DEFAULT_CALLBACK_HANDLER,
     payment_token |-> NULL_ADDRESS, payment |-> 0,
     payment_receiver |-> NULL_ADDRESS]

\* the bug of conflating the two nonces: the transaction nonce override, when
\* supplied, is used as the CREATE2 salt
CreateProxyWithTxNonce(master_copy, initializer, salt_nonce) ==
    [fn |-> "createProxyWithNonce", master_copy |-> master_copy,
     initializer |-> initializer,
     salt_nonce |-> IF bargs # None /\ bargs[1].nonce # None
                       THEN bargs[1].nonce[1] ELSE salt_nonce]

\* lines 166-168: createProxyWithNonce(master_copy, initializer, salt_nonce)
CreateProxyWithNonce(master_copy, initializer, salt_nonce) ==
    [fn |-> "createProxyWithNonce", master_copy |-> master_copy,
     initializer |-> initializer, salt_nonce |-> salt_nonce]

\* line 171: what the factory answers to the read-only call: the CREATE2 address,
\* a function of the factory and of the call's arguments.
SimulatedCall(proxy_factory, fn) ==
    <<"proxy", proxy_factory, fn.master_copy, fn.initializer, fn.salt_nonce>>

\* lines 170-180: tx_parameters with the overrides that were supplied
TxParameters(b) ==
    [from |-> b.address, gasPrice |-> b.gas_price, gas |-> b.gas, nonce |-> b.nonce]

\* line 182: create_proxy_fn.buildTransaction(tx_parameters), the gas limit being
\* the one supplied or else `estimated`; line 184: plus the margin.
BuildTransaction(b, params, estimated) ==
    [from |-> params.from,
     to |-> b.proxy_factory,
     data |-> CreateProxyWithNonce(b.master_copy, b.initializer, b.salt_nonce),
     gasPrice |-> params.gasPrice,
     gas |-> (IF params.gas # None THEN params.gas[1] ELSE estimated) + GasMargin,
     nonce |-> params.nonce]

\* line 185: tx["nonce"] = w3.eth.get_transaction_count(address)
SetNonce(t, params, count) == [t EXCEPT !.nonce = Some(count)]

Query(op, client, arg, ok, ret) ==
    [op |-> op, client |-> client, arg |-> arg, ok |-> ok, ret |-> ret]

\* the bug of catching the exception and returning what was built so far
RaiseReturningPartial(err) ==
    /\ pc' = "done"
    /\ outcome' = err
    /\ result' = Some([tx |-> tx_parameters, contract_address |-> contract_address])

\* an exception leaves the call: nothing is returned
Raise(err) ==
    /\ pc' = "done"
    /\ outcome' = err
    /\ result' = None

Continue(next) ==
    /\ pc' = next
    /\ UNCHANGED <<outcome, result>>

NoReq == [sender |-> "", owners |-> <<>>, threshold |-> 0, salt_nonce |-> None]

PlannerRequests ==
    [sender : Senders, owners : OwnerLists, threshold : Thresholds,
     salt_nonce : Opt(Salts)]

Initializers == {SetupData(<<"0xA">>, 1), SetupData(<<"0xA", "0xB">>, 2)}

BuilderCalls ==
    [proxy_factory : {PROXY_FACTORY_CONTRACT}, master_copy : {SAFE_CONTRACT},
     address : {"0xSeNdEr"}, initializer : Initializers, salt_nonce : Salts,
     gas : Opt(GasValues), gas_price : Opt(GasPrices), nonce : Opt(TxCounts)]

ChainStates ==
    [balance : Balances, master_code : {<<>>, <<"0x60">>},
     factory_code : {<<>>, <<"0x60">>}, tx_count : TxCounts]

\* what a successful call returned, kept to compare with the next call
Returned == [contract_address |-> result[1].contract_address,
             data |-> result[1].tx.data]

\* ------------------------------------------------------------------- Init
Init ==
    /\ chain \in ChainStates
    /\ auto \in [tx_count : TxCounts]
    /\ pc = "idle"
    /\ entry = "none"
    /\ req = NoReq
    /\ salt = 0
    /\ account_balance = None
    /\ bargs = None
    /\ contract_address = None
    /\ tx_parameters = None
    /\ tx = None
    /\ log = <<>>
    /\ outcome = "none"
    /\ result = None
    /\ last = None

\* ---------------------------------------------------------------- actions

\* lines 73-87 of get_deploy_safe_tx: the salt, then the threshold check
PlannerEntry(r, drawn, prev) ==
    /\ entry' = "planner"
    /\ req' = r
    /\ salt' = ChooseSaltNonce(r.salt_nonce, drawn)
    /\ account_balance' = None
    /\ bargs' = None
    /\ contract_address' = None
    /\ tx_parameters' = None
    /\ tx' = None
    /\ log' = <<>>
    /\ last' = prev
    /\ IF ThresholdTooBig(r.owners, r.threshold)
          THEN Raise("InvalidThreshold")
          ELSE pc' = FirstQuery /\ outcome' = "none" /\ result' = None
    /\ UNCHANGED <<chain, auto>>

\* lines 163-170 of _build_tx_deploy_proxy_contract_with_nonce
BuilderEntry(b, prev) ==
    /\ entry' = "builder"
    /\ req' = NoReq
    /\ salt' = 0
    /\ account_balance' = None
    /\ bargs' = Some(b)
    /\ contract_address' = None
    /\ tx_parameters' = Some([from |-> b.address, gasPrice |-> None,
                              gas |-> None, nonce |-> None])
    /\ tx' = None
    /\ log' = <<>>
    /\ last' = prev
    /\ pc' = "call"
    /\ outcome' = "none"
    /\ result' = None
    /\ UNCHANGED <<chain, auto>>

\* a caller invokes get_deploy_safe_tx (calls share no state: each starts afresh)
get_deploy_safe_tx ==
    /\ pc = "idle"
    /\ \E r \in PlannerRequests, drawn \in Salts : PlannerEntry(r, drawn, None)

\* the caller invokes get_deploy_safe_tx again with the arguments of the call
\* that just succeeded
get_deploy_safe_tx_again ==
    /\ pc = "done" /\ outcome = "ok" /\ entry = "planner"
    /\ \E drawn \in Salts : PlannerEntry(req, drawn, Some(Returned))

\* a caller invokes the builder directly, with or without overrides
build_tx_deploy_proxy_contract_with_nonce ==
    /\ pc = "idle"
    /\ \E b \in BuilderCalls : BuilderEntry(b, None)

\* the caller invokes the builder again with the same proxy factory, master copy,
\* sender, initializer and salt, and any overrides
build_tx_deploy_proxy_contract_with_nonce_again ==
    /\ pc = "done" /\ outcome = "ok" /\ entry = "builder"
    /\ \E g \in Opt(GasValues), gp \in Opt(GasPrices), n \in Opt(TxCounts) :
          BuilderEntry([bargs[1] EXCEPT !.gas = g, !.gas_price = gp, !.nonce = n],
                       Some(Returned))


\* line 90: ethereum_client.get_balance(account_address); lines 91-92
get_balance ==
    /\ pc = "get_balance"
    /\ \/ /\ log' = Append(log, Query("get_balance", "node",
                                      checksum_address(req.sender), FALSE, None))
          /\ Raise("ChainQueryFailed")
          /\ UNCHANGED account_balance
       \/ /\ log' = Append(log, Query("get_balance", "node",
                                      checksum_address(req.sender), TRUE,
                                      Some(chain.balance)))
          /\ account_balance' = Some(chain.balance)
          /\ IF NoFunds(chain.balance)
                THEN Raise("InsufficientFunds")
                ELSE Continue("get_network")
    /\ UNCHANGED <<chain, auto, entry, req, salt, bargs, contract_address,
                   tx_parameters, tx, last>>

\* lines 94-100: the log line names the network, ethereum_client.get_network()
get_network ==
    /\ pc = "get_network"
    /\ \/ /\ log' = Append(log, Query("get_network", "node", "", FALSE, None))
          /\ Raise("ChainQueryFailed")
       \/ /\ log' = Append(log, Query("get_network", "node", "", TRUE, None))
          /\ Continue("getCode_safe")
    /\ UNCHANGED <<chain, auto, entry, req, salt, account_balance, bargs,
                   contract_address, tx_parameters, tx, last>>

\* lines 102-103 (and 105): getCode(safe_contract_address)
getCode_safe ==
    /\ pc = "getCode_safe"
    /\ \/ /\ log' = Append(log, Query("getCode", "node", SAFE_CONTRACT, FALSE, None))
          /\ Raise("ChainQueryFailed")
       \/ /\ log' = Append(log, Query("getCode", "node", SAFE_CONTRACT, TRUE,
                                      chain.master_code))
          /\ IF NoCode(chain.master_code)
                THEN Raise("UnsupportedNetwork")
                ELSE Continue("getCode_factory")
    /\ UNCHANGED <<chain, auto, entry, req, salt, account_balance, bargs,
                   contract_address, tx_parameters, tx, last>>

\* line 104 (and 105): getCode(proxy_factory_address), reached only when the master
\* copy has code; then lines 107-136: the setup payload and the call of the builder,
\* whose lines 163-170 run up to its first query
getCode_factory ==
    /\ pc = "getCode_factory"
    /\ \/ /\ log' = Append(log, Query("getCode", "node", PROXY_FACTORY_CONTRACT,
                                      FALSE, None))
          /\ Raise("ChainQueryFailed")
          /\ UNCHANGED <<bargs, tx_parameters>>
       \/ /\ log' = Append(log, Query("getCode", "node", PROXY_FACTORY_CONTRACT,
                                      TRUE, chain.factory_code))
          /\ IF NoCode(chain.factory_code)
                THEN /\ Raise("UnsupportedNetwork")
                     /\ UNCHANGED <<bargs, tx_parameters>>
                ELSE /\ Continue("call")
                     /\ bargs' = Some([proxy_factory |-> PROXY_FACTORY_CONTRACT,
                                       master_copy |-> SAFE_CONTRACT,
                                       address |-> checksum_address(req.sender),
                                       initializer |-> SetupData(req.owners, req.threshold),
                                       salt_nonce |-> salt,
                                       gas |-> None, gas_price |-> None, nonce |-> None])
                     /\ tx_parameters' = Some([from |-> checksum_address(req.sender),
                                               gasPrice |-> None, gas |-> None,
                                               nonce |-> None])
    /\ UNCHANGED <<chain, auto, entry, req, salt, account_balance,
                   contract_address, tx, last>>

\* line 171: create_proxy_fn.call(tx_parameters); lines 173-180: the overrides
call ==
    /\ pc = "call"
    /\ LET b == bargs[1]
           fn == CreateProxyWithNonce(b.master_copy, b.initializer, b.salt_nonce)
       IN  \/ /\ log' = Append(log, Query("call", "node", tx_parameters[1], FALSE, None))
              /\ Raise("ChainQueryFailed")
              /\ UNCHANGED <<contract_address, tx_parameters>>
           \/ /\ log' = Append(log, Query("call", "node", tx_parameters[1], TRUE,
                                          Some(SimulatedCall(b.proxy_factory, fn))))
              /\ contract_address' = Some(SimulatedCall(b.proxy_factory, fn))
              /\ tx_parameters' = Some(TxParameters(b))
              /\ Continue("buildTransaction")
    /\ UNCHANGED <<chain, auto, entry, req, salt, account_balance, bargs, tx, last>>

\* line 182: create_proxy_fn.buildTransaction(tx_parameters), which asks the node
\* for a gas estimate only when tx_parameters holds no gas; line 184: the margin.
\* (What else the library fills in, a gas price or a chain id, is left as
\* tx_parameters has it.)
buildTransaction ==
    /\ pc = "buildTransaction"
    /\ LET b == bargs[1]
           params == tx_parameters[1]
       IN  \/ /\ params.gas # None
              /\ tx' = Some(BuildTransaction(b, params, 0))
              /\ UNCHANGED log
              /\ Continue("get_transaction_count")
           \/ /\ params.gas = None
              /\ log' = Append(log, Query("estimateGas", "node", params, FALSE, None))
              /\ Raise("ChainQueryFailed")
              /\ UNCHANGED tx
           \/ /\ params.gas = None
              /\ \E estimated \in GasValues :
                    /\ log' = Append(log, Query("estimateGas", "node", params, TRUE,
                                                Some(estimated)))
                    /\ tx' = Some(BuildTransaction(b, params, estimated))
              /\ Continue("get_transaction_count")
    /\ UNCHANGED <<chain, auto, entry, req, salt, account_balance, bargs,
                   contract_address, tx_parameters, last>>

\* line 185: w3.eth.get_transaction_count(address), asked of the module-level
\* web3.auto w3; line 186, and line 137 when the planner called: the return
get_transaction_count ==
    /\ pc = "get_transaction_count"
    /\ \/ /\ log' = Append(log, Query("get_transaction_count", "auto",
                                      bargs[1].address, FALSE, None))
          /\ Raise("ChainQueryFailed")
          /\ UNCHANGED tx
       \/ /\ log' = Append(log, Query("get_transaction_count", "auto",
                                      bargs[1].address, TRUE, Some(auto.tx_count)))
          /\ tx' = Some(SetNonce(tx[1], tx_parameters[1], auto.tx_count))
          /\ pc' = "done"
          /\ outcome' = "ok"
          /\ result' = Some([tx |-> SetNonce(tx[1], tx_parameters[1], auto.tx_count),
                             contract_address |-> contract_address[1]])
    /\ UNCHANGED <<chain, auto, entry, req, salt, account_balance, bargs,
                   contract_address, tx_parameters, last>>

Next ==
    \/ get_deploy_safe_tx
    \/ get_deploy_safe_tx_again
    \/ build_tx_deploy_proxy_contract_with_nonce
    \/ build_tx_deploy_proxy_contract_with_nonce_again
    \/ get_balance
    \/ get_network
    \/ getCode_safe
    \/ getCode_factory
    \/ call
    \/ buildTransaction
    \/ get_transaction_count

Spec == Init /\ [][Next]_vars


\* ------------------------------------------------------- words of the claims

\* the number of distinct addresses in an owner list
DistinctOwners(owners) == Cardinality({owners[i] : i \in 1..Len(owners)})

\* the queries of the builder: simulation call, gas estimate, transaction count
BuilderOps == {"call", "estimateGas", "get_transaction_count"}

Issued(ops) == \E i \in 1..Len(log) : log[i].op \in ops

AllAnswered == \A i \in 1..Len(log) : log[i].ok

\* the answer of the (only) query `op` of the running call
AnswerOf(op) == log[CHOOSE i \in 1..Len(log) : log[i].op = op].ret

PlannerRuns == entry = "planner"

Succeeded == pc = "done" /\ outcome = "ok"

\* ------------------------------------------------------------------ claims

\* C1: every request whose threshold exceeds the number of distinct owners fails
\* with InvalidThreshold, and no chain query has been issued in that run.
C1_InvalidThresholdBeforeAnyQuery ==
    (PlannerRuns /\ req.threshold > DistinctOwners(req.owners))
        => /\ pc = "done"
           /\ outcome = "InvalidThreshold"
           /\ log = <<>>
           /\ result = None

C3_NonceCorrect ==
    Succeeded =>
        /\ bargs[1].nonce = None => result[1].tx.nonce = Some(chain.tx_count)
        /\ bargs[1].nonce # None => result[1].tx.nonce = bargs[1].nonce

\* C4: a request that passes the threshold check and whose sender balance is zero
\* fails with InsufficientFunds; the builder is never entered, none of its queries
\* is issued and nothing is returned.
C4_ZeroBalanceInsufficientFunds ==
    (PlannerRuns /\ Len(req.owners) >= req.threshold /\ chain.balance = 0)
        => /\ bargs = None /\ tx_parameters = None /\ tx = None
           /\ ~Issued(BuilderOps)
           /\ result = None
           /\ (pc = "done" /\ AllAnswered) => outcome = "InsufficientFunds"

C4_Witness ==
    /\ PlannerRuns /\ pc = "done" /\ outcome = "InsufficientFunds"
    /\ chain.balance = 0
    /\ req.threshold = 2 /\ DistinctOwners(req.owners) = 2
    /\ Len(log) = 1 /\ log[1].op = "get_balance" /\ log[1].ret = Some(0)

\* C5: a request that passes the threshold check, with a non-zero sender balance,
\* against a chain with no code at the master copy or at the proxy factory, fails
\* with UnsupportedNetwork; the builder is never entered and none of its queries
\* is issued.
C5_MissingCodeUnsupportedNetwork ==
    (/\ PlannerRuns /\ Len(req.owners) >= req.threshold /\ chain.balance # 0
     /\ (chain.master_code = <<>> \/ chain.factory_code = <<>>))
        => /\ bargs = None /\ tx_parameters = None /\ tx = None
           /\ ~Issued(BuilderOps)
           /\ result = None
           /\ (pc = "done" /\ AllAnswered) => outcome = "UnsupportedNetwork"

C5_Witness ==
    /\ PlannerRuns /\ pc = "done" /\ outcome = "UnsupportedNetwork"
    /\ chain.balance # 0
    /\ chain.master_code # <<>> /\ chain.factory_code = <<>>
    /\ req.threshold = 1 /\ DistinctOwners(req.owners) = 2
    /\ Len(log) = 4 /\ log[4].arg = PROXY_FACTORY_CONTRACT

\* C6: a failed precondition or a failed chain query ends the run in a failure
\* with nothing returned; the failed query is the last query of the run (it is not
\* issued again and no later query follows it); whatever is returned is complete.
C6_FailureReturnsNothing ==
    /\ outcome \notin {"none", "ok"} => (pc = "done" /\ result = None)
    /\ \A i \in 1..Len(log) :
          ~log[i].ok => /\ i = Len(log)
                        /\ pc = "done"
                        /\ outcome = "ChainQueryFailed"
                        /\ result = None
    /\ result # None => /\ Succeeded
                        /\ AllAnswered
                        /\ result[1].tx.nonce # None
                        /\ result[1].contract_address = contract_address[1]

C6_Witness ==
    /\ PlannerRuns /\ pc = "done" /\ outcome = "ChainQueryFailed"
    /\ Len(log) = 6 /\ log[6].op = "estimateGas" /\ ~log[6].ok
    /\ contract_address # None /\ tx_parameters # None
    /\ result = None


\* C7: every request whose threshold is less than 1 is rejected before any chain
\* query: it never reaches the balance query and nothing is returned for it.
C7_ThresholdBelowOneRejected ==
    (PlannerRuns /\ req.threshold < 1)
        => /\ pc = "done"
           /\ outcome \notin {"none", "ok"}
           /\ log = <<>>
           /\ result = None

\* C8: a call that repeats a successful call with the same sender, owners,
\* threshold and caller-supplied salt against the same chain state returns the
\* same predicted address and the same data; and a builder call that repeats one
\* with the same proxy factory, master copy, initializer and salt returns them
\* too, whatever its gas, gas price and nonce overrides.
C8_Deterministic ==
    (/\ Succeeded
     /\ last # None
     /\ PlannerRuns => req.salt_nonce # None)
        => /\ result[1].contract_address = last[1].contract_address
           /\ result[1].tx.data = last[1].data

C8_Witness ==
    /\ PlannerRuns /\ Succeeded
    /\ last # None
    /\ req.salt_nonce = Some(1)
    /\ DistinctOwners(req.owners) = 2 /\ req.threshold = 2
    /\ last[1].contract_address = result[1].contract_address

\* C9: a request with 1 <= threshold <= distinct owners, a non-zero sender balance
\* and code at both well-known addresses succeeds (every query being answered)
\* with a transaction to the proxy factory, from the sender, that carries the
\* caller's salt when one is supplied (0 included) and the setup payload of the
\* request, and with the address the simulated call returned.
C9_SuccessfulPlanShape ==
    (/\ PlannerRuns
     /\ 1 <= req.threshold /\ req.threshold <= DistinctOwners(req.owners)
     /\ chain.balance # 0
     /\ chain.master_code # <<>> /\ chain.factory_code # <<>>
     /\ pc = "done" /\ AllAnswered)
        => /\ outcome = "ok"
           /\ result # None
           /\ result[1].tx.to = PROXY_FACTORY_CONTRACT
           /\ result[1].tx.from = "0xSeNdEr"
           /\ req.salt_nonce # None => result[1].tx.data.salt_nonce = req.salt_nonce[1]
           /\ result[1].tx.data.fn = "createProxyWithNonce"
           /\ result[1].tx.data.master_copy = SAFE_CONTRACT
           /\ result[1].tx.data.initializer.owners = req.owners
           /\ result[1].tx.data.initializer.threshold = req.threshold
           /\ result[1].contract_address = AnswerOf("call")[1]

C9_Witness ==
    /\ PlannerRuns /\ Succeeded
    /\ req.sender = "0xsender"
    /\ req.salt_nonce = Some(0)
    /\ req.owners = <<"0xA", "0xB">> /\ req.threshold = 2
    /\ result[1].tx.data.salt_nonce = 0
    /\ Len(log) = 7

\* C10 as claimed: code presence is checked first, so a valid-threshold request
\* against a chain with no code at a well-known address ends in
\* UnsupportedNetwork whatever the sender's balance.
C10_CodePresenceCheckedFirst ==
    (/\ PlannerRuns
     /\ 1 <= req.threshold /\ req.threshold <= DistinctOwners(req.owners)
     /\ (chain.master_code = <<>> \/ chain.factory_code = <<>>)
     /\ pc = "done" /\ AllAnswered)
        => outcome = "UnsupportedNetwork"

\* C10 as amended: code presence is checked after the sender's balance and before
\* any query of the builder.  Every code query follows an answered, non-zero
\* balance query and precedes every builder query; a planner's builder query
\* follows two code queries that found code; and a valid-threshold request
\* against a chain with no code at a well-known address ends in InsufficientFunds
\* when the balance is zero and in UnsupportedNetwork otherwise.
C10_CodePresenceAfterBalance ==
    /\ \A i \in 1..Len(log) :
          log[i].op = "getCode" =>
              /\ log[1].op = "get_balance" /\ log[1].ok /\ log[1].ret # Some(0)
              /\ \A j \in 1..i : log[j].op \notin BuilderOps
    /\ \A i \in 1..Len(log) :
          (PlannerRuns /\ log[i].op \in BuilderOps) =>
              Cardinality({j \in 1..(i-1) : /\ log[j].op = "getCode"
                                            /\ log[j].ok
                                            /\ log[j].ret # <<>>}) = 2
    /\ (/\ PlannerRuns
        /\ 1 <= req.threshold /\ req.threshold <= DistinctOwners(req.owners)
        /\ (chain.master_code = <<>> \/ chain.factory_code = <<>>)
        /\ pc = "done" /\ AllAnswered)
           => outcome = (IF chain.balance = 0 THEN "InsufficientFunds"
                                              ELSE "UnsupportedNetwork")

C10_Witness ==
    /\ PlannerRuns /\ pc = "done" /\ AllAnswered
    /\ req.threshold = 1 /\ DistinctOwners(req.owners) = 1
    /\ chain.balance = 0
    /\ chain.master_code = <<>>
    /\ outcome = "InsufficientFunds"
    /\ ~Issued({"getCode"})

====
